---- MODULE Spec2Model ----
(***************************************************************************)
(* Item distribution, pickup and equip logic of dungeon-terrain.           *)
(*                                                                         *)
(* The registry mapItems, the tile grid map and the player are the state;  *)
(* distributeItems is modelled one loop iteration per step (pc = "loop"),  *)
(* every other function is one atomic action.  Math.random() draws are     *)
(* existentially quantified inputs.                                        *)
(***************************************************************************)
EXTENDS Integers, Sequences, FiniteSets, TLC

VARIABLES
    map,          \* the host's tile array, index = y * MAP_WIDTH + x (0-based)
    mapItems,     \* the module-level registry of placed items
    pc,           \* "idle", or "loop" while distributeItems is in its while loop
    itemCount,    \* distributeItems local: target item count
    placedItems,  \* distributeItems local
    attempts,     \* distributeItems local
    inventory,    \* player.inventory
    equipment,    \* player.equipment
    call          \* the most recent call: operation, arguments, result

vars == <<map, mapItems, pc, itemCount, placedItems, attempts,
          inventory, equipment, call>>

----------------------------------------------------------------------------
(* Bounds of the model *)

\* host configuration of the grid (globals MAP_WIDTH, MAP_HEIGHT)
MAP_WIDTH == 2
MAP_HEIGHT == 2
\* at most this many floor tiles in a level grid
MaxFloor == 1
\* only runs with at most this many successful placements are explored
MaxPlaced == 2
\* a random catalog index is drawn among the first MaxPick entries
MaxPick == 1
\* only runs with at most this many inventory entries are explored
MaxInventory == 2
\* sizes of the player's fixed ring and talisman arrays
RingSlots == 2
TalismanSlots == 1

----------------------------------------------------------------------------
(* Program constants *)

minItems == 10
maxItems == 40

FLOOR == "."
WALL == "#"
WEAPON_SYMBOL == "\\"
ARMOR_SYMBOL == "&"
TRINKET_SYMBOL == "$"
ItemSymbols == {WEAPON_SYMBOL, ARMOR_SYMBOL, TRINKET_SYMBOL}

\* a JavaScript value that is absent
NULL == [id |-> "null", type |-> "null", slot |-> "null"]

Weapon(id) == [id |-> id, type |-> "weapon", slot |-> "undefined"]
Armor(id, slot) == [id |-> id, type |-> "armor", slot |-> slot]
Ring(id) == [id |-> id, type |-> "ring", slot |-> "undefined"]
Talisman(id) == [id |-> id, type |-> "talisman", slot |-> "undefined"]

WEAPONS ==
    << Weapon("sword_short"), Weapon("axe_hand"), Weapon("mace_light"),
       Weapon("dagger_silver"), Weapon("sword_great"), Weapon("staff_flame"),
       Weapon("blade_frost"), Weapon("sword_executioner"),
       Weapon("whip_poison") >>

ARMOR ==
    << Armor("helm_iron", "head"), Armor("hood_leather", "head"),
       Armor("crown_mage", "head"), Armor("plate_steel", "chest"),
       Armor("robe_enchanted", "chest"), Armor("tunic_hunter", "chest"),
       Armor("greaves_iron", "legs"), Armor("pants_leather", "legs"),
       Armor("gauntlets_iron", "arms"), Armor("bracers_leather", "arms") >>

RINGS ==
    << Ring("ring_strength"), Ring("ring_dexterity"),
       Ring("ring_intelligence"), Ring("ring_vitality"), Ring("ring_fire"),
       Ring("ring_poison"), Ring("ring_vampire"), Ring("ring_luck") >>

TALISMANS ==
    << Talisman("talisman_fire"), Talisman("talisman_frost"),
       Talisman("talisman_bleeding"), Talisman("talisman_protection"),
       Talisman("talisman_dragon"), Talisman("talisman_assassin"),
       Talisman("talisman_berserker") >>

\* the letters toLowerCase maps, in alphabet order
UpperLetters ==
    << "A", "B", "C", "D", "E", "F", "G", "H", "I", "J", "K", "L", "M",
       "N", "O", "P", "Q", "R", "S", "T", "U", "V", "W", "X", "Y", "Z" >>

LowerLetters ==
    << "a", "b", "c", "d", "e", "f", "g", "h", "i", "j", "k", "l", "m",
       "n", "o", "p", "q", "r", "s", "t", "u", "v", "w", "x", "y", "z" >>

\* toLowerCase on one character
LowerChar(c) ==
    IF \E i \in DOMAIN UpperLetters : UpperLetters[i] = c
    THEN LowerLetters[CHOOSE i \in DOMAIN UpperLetters : UpperLetters[i] = c]
    ELSE c

\* type.toLowerCase(), a string being the sequence of its characters
toLowerCase(chars) == [i \in DOMAIN chars |-> LowerChar(chars[i])]

\* the case labels of the switch in getItemsByType
WEAPON_TYPE == << "w", "e", "a", "p", "o", "n" >>
ARMOR_TYPE == << "a", "r", "m", "o", "r" >>
RING_TYPE == << "r", "i", "n", "g" >>
TALISMAN_TYPE == << "t", "a", "l", "i", "s", "m", "a", "n" >>

\* a JavaScript value passed as the type: its typeof (null apart) and, for a
\* string, number or boolean, its characters
Str(chars) == [kind |-> "string", chars |-> chars]

\* !type
Falsy(v) ==
    \/ v.kind \in {"null", "undefined"}
    \/ v.kind = "string" /\ Len(v.chars) = 0
    \/ v.kind = "number" /\ v.chars = << "0" >>
    \/ v.kind = "boolean" /\ v.chars = << "f", "a", "l", "s", "e" >>

\* getItemsByType(type): the array returned, or the TypeError raised by
\* type.toLowerCase() on a value that has no such method
ItemsByTypeOutcome(type) ==
    IF Falsy(type) THEN [ret |-> "array", items |-> << >>]
    ELSE IF type.kind # "string" THEN [ret |-> "TypeError", items |-> << >>]
    ELSE LET lower == toLowerCase(type.chars)
         IN  [ret |-> "array",
              items |-> CASE lower = WEAPON_TYPE -> WEAPONS
                          [] lower = ARMOR_TYPE -> ARMOR
                          [] lower = RING_TYPE -> RINGS
                          [] lower = TALISMAN_TYPE -> TALISMANS
                          [] OTHER -> << >>]

\* the string literals the callers in this module pass as the type
TypeLiteral(type) ==
    CASE type = "weapon" -> Str(WEAPON_TYPE)
      [] type = "armor" -> Str(ARMOR_TYPE)
      [] type = "ring" -> Str(RING_TYPE)
      [] type = "talisman" -> Str(TALISMAN_TYPE)

\* getItemsByType called with a type literal
getItemsByType(type) == ItemsByTypeOutcome(TypeLiteral(type)).items

----------------------------------------------------------------------------
(* Helpers *)

Min(a, b) == IF a < b THEN a ELSE b

Cells == MAP_WIDTH * MAP_HEIGHT

\* map[index] for a 0-based index; "undefined" outside the array
TileAt(m, index) ==
    IF index >= 0 /\ index < Len(m) THEN m[index + 1] ELSE "undefined"

\* y * MAP_WIDTH + x
CellIndex(x, y) == y * MAP_WIDTH + x

\* outcomes of Math.floor(Math.random() * 10)
Tenths == 0 .. 9

\* outcomes of Math.floor(Math.random() * items.length), as explored
PickIndices(items) == 0 .. (Min(Len(items), MaxPick) - 1)

RECURSIVE CountFloor(_, _)
\* the counting loop over map[0 .. n-1]
CountFloor(m, n) ==
    IF n = 0 THEN 0
    ELSE CountFloor(m, n - 1) + (IF m[n] = FLOOR THEN 1 ELSE 0)

\* minItems + Math.floor((navigableTiles / (MAP_WIDTH * MAP_HEIGHT)) * (maxItems - minItems))
BaseItemCount(navigableTiles) ==
    minItems + ((navigableTiles * (maxItems - minItems)) \div Cells)

\* the target without the cap at maxItems
TargetItemCount_NoCap(navigableTiles, u) ==
    BaseItemCount(navigableTiles) + u - 5

\* Math.min(maxItems, baseItemCount + Math.floor(Math.random() * 10) - 5)
TargetItemCount(navigableTiles, u) ==
    Min(maxItems, BaseItemCount(navigableTiles) + u - 5)

\* any tile of the grid accepted
IsFloorTile_AnyTile(m, index) == TileAt(m, index) # "undefined"

\* map[index] === "."
IsFloorTile(m, index) == TileAt(m, index) = FLOOR

\* the while condition without the attempt budget
LoopContinues_NoBudget(placed, count, tries) == placed < count

\* the while condition of the placement loop
LoopContinues(placed, count, tries) ==
    placed < count /\ tries < count * 10

\* the symbol chosen for an itemTypeRoll of r/10
RolledSymbol(r) ==
    IF r < 4 THEN WEAPON_SYMBOL
    ELSE IF r < 7 THEN ARMOR_SYMBOL
    ELSE TRINKET_SYMBOL

\* the types an itemTypeRoll of r/10 can give; the third branch draws
\* Math.random() < 0.5 once more
RolledTypes(r) ==
    IF r < 4 THEN {"weapon"}
    ELSE IF r < 7 THEN {"armor"}
    ELSE {IF c < 5 THEN "ring" ELSE "talisman" : c \in Tenths}

\* arguments a caller may pass as the map
MapArgs == {"array", "null", "empty", "string"}

\* !map || typeof map !== "object" || !map.length
InvalidMapArg(arg, m) == arg # "array" \/ Len(m) = 0

\* arguments a caller may pass as the player: null, undefined, a value that
\* is not an object, or an object whose x and y are numbers or not
NoPlayer == [kind |-> "none", hasX |-> FALSE, hasY |-> FALSE, x |-> 0, y |-> 0]

PlayerArgs ==
    { [kind |-> k, hasX |-> FALSE, hasY |-> FALSE, x |-> 0, y |-> 0] :
        k \in {"null", "undefined", "number"} }
    \cup
    { [kind |-> "object", hasX |-> hx, hasY |-> hy,
       x |-> IF hx THEN x ELSE 0, y |-> IF hy THEN y ELSE 0] :
        hx \in BOOLEAN, hy \in BOOLEAN,
        x \in 0 .. MAP_WIDTH, y \in 0 .. MAP_HEIGHT - 1 }

\* no type argument
NoType == [kind |-> "undefined", chars |-> << >>]

\* the record of a call: op, the map and player arguments, the value
\* returned ("TypeError" for a thrown fault), the branch that found the item,
\* the operation called before this one, for getItemsByType the type
\* argument, and the array returned by getItemsByType or distributeItems
CallRecord(op, arg, player, ret, path) ==
    [op |-> op, mapArg |-> arg, player |-> player,
     ret |-> ret, path |-> path, after |-> call.op,
     type |-> NoType, items |-> << >>]

NoCall ==
    [op |-> "none", mapArg |-> "none", player |-> NoPlayer,
     ret |-> "none", path |-> "none", after |-> "none",
     type |-> NoType, items |-> << >>]

----------------------------------------------------------------------------
(* Level grids: wall and floor tiles only, sparse or fully open *)

FloorCells(g) == {i \in 1 .. Len(g) : g[i] = FLOOR}

LevelGrids ==
    { g \in [1 .. Cells -> {FLOOR, WALL}] :
        \/ Cardinality(FloorCells(g)) <= MaxFloor
        \/ Cardinality(FloorCells(g)) = Cells }

EmptyEquipment ==
    [rightHand |-> << >>, leftHand |-> << >>,
     head |-> NULL, chest |-> NULL, legs |-> NULL, arms |-> NULL,
     rings |-> [i \in 1 .. RingSlots |-> NULL],
     talismans |-> [i \in 1 .. TalismanSlots |-> NULL]]

Init ==
    /\ map \in LevelGrids
    /\ mapItems = << >>
    /\ pc = "idle"
    /\ itemCount = 0
    /\ placedItems = 0
    /\ attempts = 0
    /\ inventory = << >>
    /\ equipment = EmptyEquipment
    /\ call = NoCall

----------------------------------------------------------------------------
(* distributeItems(map) *)

\* a clearing that keeps the previous items
ClearRegistry_Keep(registry) == registry

\* mapItems = []
ClearRegistry(registry) == << >>

\* entry of distributeItems up to the first test of the while condition
DistributeItemsCall(arg) ==
    /\ pc = "idle"
    /\ mapItems' = ClearRegistry(mapItems)
    /\ IF InvalidMapArg(arg, map)
       THEN /\ pc' = "idle"
            /\ call' = CallRecord("distributeItems", arg, NoPlayer,
                                   "empty", "none")
            /\ UNCHANGED <<itemCount, placedItems, attempts>>
       ELSE \E u \in Tenths :
            /\ itemCount' = TargetItemCount(CountFloor(map, Len(map)), u)
            /\ placedItems' = 0
            /\ attempts' = 0
            /\ pc' = "loop"
            /\ call' = CallRecord("distributeItems", arg, NoPlayer,
                                   "pending", "none")
    /\ UNCHANGED <<map, inventory, equipment>>

\* the registry after mapItems.push({x, y, item, symbol})
PushEntry(registry, x, y, item, symbol) ==
    Append(registry, [x |-> x, y |-> y, item |-> item, symbol |-> symbol])

\* one iteration of the while loop
DistributeAttempt ==
    /\ pc = "loop"
    /\ LoopContinues(placedItems, itemCount, attempts)
    /\ attempts' = attempts + 1
    /\ \E x \in 0 .. MAP_WIDTH - 1, y \in 0 .. MAP_HEIGHT - 1 :
        IF IsFloorTile(map, CellIndex(x, y))
        THEN \E r \in Tenths : \E itemType \in RolledTypes(r) :
             LET items == getItemsByType(itemType)
             IN  IF Len(items) > 0
                 THEN /\ placedItems < MaxPlaced
                      /\ \E k \in PickIndices(items) :
                           mapItems' = PushEntry(mapItems, x, y, items[k + 1],
                                                 RolledSymbol(r))
                      /\ placedItems' = placedItems + 1
                 ELSE UNCHANGED <<mapItems, placedItems>>
        ELSE UNCHANGED <<mapItems, placedItems>>
    /\ UNCHANGED <<map, pc, itemCount, inventory, equipment, call>>

\* the loop exit and return mapItems to the host; the locals go out of scope
DistributeReturn ==
    /\ pc = "loop"
    /\ call.op = "distributeItems"
    /\ ~LoopContinues(placedItems, itemCount, attempts)
    /\ pc' = "idle"
    /\ call' = [call EXCEPT !.ret = "mapItems", !.items = mapItems]
    /\ itemCount' = 0
    /\ placedItems' = 0
    /\ attempts' = 0
    /\ UNCHANGED <<map, mapItems, inventory, equipment>>

----------------------------------------------------------------------------
(* updateMapWithItems(map) *)

\* a test that lets every tile of the grid be written
CanPlaceOn_AnyTile(tile) == tile # "undefined"

\* map[index] === "." in updateMapWithItems
CanPlaceOn(tile) == tile = FLOOR

RECURSIVE ProjectItems(_, _, _)
\* the for-of loop over mapItems from entry i on
ProjectItems(m, registry, i) ==
    IF i > Len(registry) THEN m
    ELSE LET index == CellIndex(registry[i].x, registry[i].y)
         IN  IF CanPlaceOn(TileAt(m, index))
             THEN ProjectItems([m EXCEPT ![index + 1] = registry[i].symbol],
                               registry, i + 1)
             ELSE ProjectItems(m, registry, i + 1)

UpdateMapWithItems(arg) ==
    /\ pc = "idle"
    /\ IF arg \in {"null", "string"}
       THEN UNCHANGED map
       ELSE IF arg = "empty"
       THEN UNCHANGED map
       ELSE map' = ProjectItems(map, mapItems, 1)
    /\ call' = CallRecord("updateMapWithItems", arg, NoPlayer,
                          "undefined", "none")
    /\ UNCHANGED <<mapItems, itemCount, placedItems, attempts, pc,
                   inventory, equipment>>

----------------------------------------------------------------------------
(* resetAndDistributeItems(map, force) *)

\* the loop that resets every item symbol of the map to the floor tile
ClearSymbols(m) ==
    [i \in DOMAIN m |-> IF m[i] \in ItemSymbols THEN FLOOR ELSE m[i]]

\* entry of resetAndDistributeItems up to the first test of the while
\* condition of the distributeItems it calls
ResetAndDistributeItemsCall(arg, force) ==
    /\ pc = "idle"
    /\ IF InvalidMapArg(arg, map)
       THEN /\ call' = CallRecord("resetAndDistributeItems", arg, NoPlayer,
                                   "undefined", "rejected")
            /\ UNCHANGED <<map, mapItems, pc, itemCount, placedItems,
                           attempts>>
       ELSE IF Len(mapItems) = 0 \/ force
       THEN /\ map' = ClearSymbols(map)
            /\ mapItems' = ClearRegistry(<< >>)
            /\ \E u \in Tenths :
                 itemCount' = TargetItemCount(CountFloor(map', Len(map')), u)
            /\ placedItems' = 0
            /\ attempts' = 0
            /\ pc' = "loop"
            /\ call' = CallRecord("resetAndDistributeItems", arg, NoPlayer,
                                   "pending", "none")
       ELSE /\ call' = CallRecord("resetAndDistributeItems", arg, NoPlayer,
                                   "undefined", "kept")
            /\ UNCHANGED <<map, mapItems, pc, itemCount, placedItems,
                           attempts>>
    /\ UNCHANGED <<inventory, equipment>>

\* the loop exit of the distributeItems called by resetAndDistributeItems,
\* then updateMapWithItems(map) and the return
ResetReturn ==
    /\ pc = "loop"
    /\ call.op = "resetAndDistributeItems"
    /\ ~LoopContinues(placedItems, itemCount, attempts)
    /\ pc' = "idle"
    /\ map' = ProjectItems(map, mapItems, 1)
    /\ call' = [call EXCEPT !.ret = "undefined"]
    /\ itemCount' = 0
    /\ placedItems' = 0
    /\ attempts' = 0
    /\ UNCHANGED <<mapItems, inventory, equipment>>

----------------------------------------------------------------------------
(* getItemAtPosition(x, y) and pickupItem(player, map) *)

RECURSIVE FindIndexFrom(_, _, _, _)
\* mapItems.findIndex((item) => item.x === x && item.y === y), 1-based, 0 for -1
FindIndexFrom(registry, x, y, i) ==
    IF i > Len(registry) THEN 0
    ELSE IF registry[i].x = x /\ registry[i].y = y THEN i
    ELSE FindIndexFrom(registry, x, y, i + 1)

\* a findIndex that compares only the x coordinate
FindIndex_XOnly(registry, x, y) ==
    IF \E i \in DOMAIN registry : registry[i].x = x
    THEN CHOOSE i \in DOMAIN registry :
            /\ registry[i].x = x
            /\ \A j \in 1 .. i - 1 : registry[j].x # x
    ELSE 0

FindIndex(registry, x, y) == FindIndexFrom(registry, x, y, 1)

\* mapItems.splice(itemIndex, 1)
Splice(registry, i) ==
    [j \in 1 .. Len(registry) - 1 |->
        IF j < i THEN registry[j] ELSE registry[j + 1]]

\* player.addToInventory(item) of the player collaborator
AddToInventory(inv, item) == Append(inv, item)

\* a fallback that takes every symbol but the weapon's for a trinket
FallbackTypes_ArmorAsTrinket(cellChar) ==
    IF cellChar = WEAPON_SYMBOL THEN {"weapon"}
    ELSE {IF c < 5 THEN "ring" ELSE "talisman" : c \in Tenths}

\* the types the fallback derives from the map character
FallbackTypes(cellChar) ==
    IF cellChar = WEAPON_SYMBOL THEN {"weapon"}
    ELSE IF cellChar = ARMOR_SYMBOL THEN {"armor"}
    ELSE {IF c < 5 THEN "ring" ELSE "talisman" : c \in Tenths}

\* !player || typeof player !== "object" || typeof player.x !== "number" || ...
InvalidPlayer(p) == p.kind # "object" \/ ~p.hasX \/ ~p.hasY

\* the tail of pickupItem once an item was found
PickupFound(p, arg, item, path) ==
    /\ Len(inventory) < MaxInventory
    /\ inventory' = AddToInventory(inventory, item)
    /\ map' = [map EXCEPT ![CellIndex(p.x, p.y) + 1] = FLOOR]
    /\ call' = CallRecord("pickupItem", arg, p, "true", path)

PickupItem(p, arg) ==
    /\ pc = "idle"
    /\ IF p.kind \in {"null", "undefined"}
       THEN \* the first console.log reads player.x
            /\ call' = CallRecord("pickupItem", arg, p, "TypeError", "none")
            /\ UNCHANGED <<map, mapItems, inventory>>
       ELSE IF InvalidMapArg(arg, map) \/ InvalidPlayer(p)
       THEN /\ call' = CallRecord("pickupItem", arg, p, "false", "none")
            /\ UNCHANGED <<map, mapItems, inventory>>
       ELSE LET itemIndex == FindIndex(mapItems, p.x, p.y)
                cellChar == TileAt(map, CellIndex(p.x, p.y))
            IN  IF itemIndex > 0
                THEN /\ mapItems' = Splice(mapItems, itemIndex)
                     /\ PickupFound(p, arg, mapItems[itemIndex].item,
                                    "registry")
                ELSE IF cellChar \in ItemSymbols
                THEN /\ UNCHANGED mapItems
                     /\ \E itemType \in FallbackTypes(cellChar) :
                        LET items == getItemsByType(itemType)
                        IN  \E k \in PickIndices(items) :
                              PickupFound(p, arg, items[k + 1], "fallback")
                ELSE /\ call' = CallRecord("pickupItem", arg, p, "false",
                                           "none")
                     /\ UNCHANGED <<map, mapItems, inventory>>
    /\ UNCHANGED <<pc, itemCount, placedItems, attempts, equipment>>

----------------------------------------------------------------------------
(* autoEquipItem(player, item) *)

ArmorSlots == {"head", "chest", "legs", "arms"}

\* a value JavaScript takes for true in a condition
Truthy(v) == v \notin {"undefined", "null", ""}

\* the catalog armor declared for a slot, in catalog order
ArmorForSlot(slot) == SelectSeq(ARMOR, LAMBDA a : a.slot = slot)

\* the items a caller may pass: catalog items, no item, an armor that
\* declares no slot, and an item of a type the switch does not know
EquipItems ==
    { WEAPONS[k + 1] : k \in PickIndices(WEAPONS) }
    \cup UNION { { ArmorForSlot(sl)[k + 1] :
                      k \in PickIndices(ArmorForSlot(sl)) } :
                    sl \in ArmorSlots }
    \cup { RINGS[k + 1] : k \in PickIndices(RINGS) }
    \cup { TALISMANS[k + 1] : k \in PickIndices(TALISMANS) }
    \cup { NULL, Armor("armor_slotless", "undefined"),
           [id |-> "potion_minor", type |-> "potion", slot |-> "undefined"] }

\* the index of the last empty position of a ring or talisman array, 0 if none
FirstEmpty_Last(slots) ==
    IF \E i \in DOMAIN slots : slots[i] = NULL
    THEN CHOOSE i \in DOMAIN slots :
            /\ slots[i] = NULL
            /\ \A j \in DOMAIN slots : j > i => slots[j] # NULL
    ELSE 0

\* the index of the first empty position of a ring or talisman array, 0 if none
FirstEmpty(slots) ==
    IF \E i \in DOMAIN slots : slots[i] = NULL
    THEN CHOOSE i \in DOMAIN slots :
            /\ slots[i] = NULL
            /\ \A j \in 1 .. i - 1 : slots[j] # NULL
    ELSE 0

\* !player.equipment.rightHand.length
HandEmpty(hand) == Len(hand) = 0

\* a slot test that takes every armor slot for empty
SlotEmpty_Always(eq, slot) == TRUE

\* !player.equipment[item.slot]
SlotEmpty(eq, slot) == eq[slot] = NULL

Success(eq) == [equipment |-> eq, ret |-> "true"]
Failure(eq) == [equipment |-> eq, ret |-> "false"]

\* the equipment and the value returned by autoEquipItem
EquipOutcome(eq, item) ==
    IF item = NULL THEN Failure(eq)
    ELSE IF item.type = "weapon"
    THEN IF HandEmpty(eq.rightHand)
         THEN Success([eq EXCEPT !.rightHand = Append(eq.rightHand, item)])
         ELSE IF HandEmpty(eq.leftHand)
         THEN Success([eq EXCEPT !.leftHand = Append(eq.leftHand, item)])
         ELSE Failure(eq)
    ELSE IF item.type = "armor"
    THEN IF Truthy(item.slot) /\ SlotEmpty(eq, item.slot)
         THEN Success([eq EXCEPT ![item.slot] = item])
         ELSE Failure(eq)
    ELSE IF item.type = "ring"
    THEN IF FirstEmpty(eq.rings) > 0
         THEN Success([eq EXCEPT !.rings[FirstEmpty(eq.rings)] = item])
         ELSE Failure(eq)
    ELSE IF item.type = "talisman"
    THEN IF FirstEmpty(eq.talismans) > 0
         THEN Success([eq EXCEPT !.talismans[FirstEmpty(eq.talismans)] = item])
         ELSE Failure(eq)
    ELSE Failure(eq)

AutoEquipItem(item) ==
    /\ pc = "idle"
    /\ equipment' = EquipOutcome(equipment, item).equipment
    /\ call' = CallRecord("autoEquipItem", "none", NoPlayer,
                          EquipOutcome(equipment, item).ret, "none")
    /\ UNCHANGED <<map, mapItems, pc, itemCount, placedItems, attempts,
                   inventory>>

----------------------------------------------------------------------------
(* getItemsByType(type) called by the host *)

\* the upper-case letter of a lower-case letter
UpperChar(c) ==
    IF \E i \in DOMAIN LowerLetters : LowerLetters[i] = c
    THEN UpperLetters[CHOOSE i \in DOMAIN LowerLetters : LowerLetters[i] = c]
    ELSE c

\* every upper/lower-case spelling of a lower-case word
Spellings(word) ==
    { [i \in DOMAIN word |-> IF i \in U THEN UpperChar(word[i]) ELSE word[i]] :
        U \in SUBSET DOMAIN word }

\* the type arguments a caller may pass: the spellings of the four types,
\* other strings, absent values and values that are not strings
TypeArgs ==
    { Str(chars) : chars \in Spellings(WEAPON_TYPE) \cup Spellings(ARMOR_TYPE)
                      \cup Spellings(RING_TYPE) \cup Spellings(TALISMAN_TYPE) }
    \cup { Str(<< >>), Str(<< "p", "o", "t", "i", "o", "n" >>),
           Str(<< "w", "e", "a", "p", "o", "n", "s" >>),
           Str(<< "R", "i", "n", "g", " " >>) }
    \cup { [kind |-> "null", chars |-> << >>],
           [kind |-> "undefined", chars |-> << >>],
           [kind |-> "number", chars |-> << "0" >>],
           [kind |-> "number", chars |-> << "5" >>],
           [kind |-> "boolean", chars |-> << "f", "a", "l", "s", "e" >>],
           [kind |-> "boolean", chars |-> << "t", "r", "u", "e" >>],
           [kind |-> "object", chars |-> << >>] }

GetItemsByTypeCall(type) ==
    /\ pc = "idle"
    /\ call' = [CallRecord("getItemsByType", "none", NoPlayer,
                           ItemsByTypeOutcome(type).ret, "none")
                   EXCEPT !.type = type,
                          !.items = ItemsByTypeOutcome(type).items]
    /\ UNCHANGED <<map, mapItems, pc, itemCount, placedItems, attempts,
                   inventory, equipment>>

----------------------------------------------------------------------------
(* renderInventory(player) *)

\* the players a caller may pass: null, undefined, a number, and an object
\* whose inventory property is the player's array, is undefined or is 0
RenderPlayers ==
    { [kind |-> k, inv |-> "undefined"] : k \in {"null", "undefined", "number"} }
    \cup { [kind |-> "object", inv |-> i] : i \in {"array", "undefined", "zero"} }

\* the string returned by renderInventory, or the TypeError raised by the
\* first console.log, which reads player.inventory.length; the text built
\* for a non-empty inventory is not modelled further
RenderOutcome(p, inv) ==
    IF p.kind \in {"null", "undefined"} THEN "TypeError"
    ELSE IF p.inv = "undefined" THEN "TypeError"
    ELSE IF p.inv = "zero" THEN "| INVENTORY: Error"
    ELSE IF Len(inv) = 0 THEN "| INVENTORY: Empty"
    ELSE "| INVENTORY: items"

RenderInventory(p) ==
    /\ pc = "idle"
    /\ call' = CallRecord("renderInventory", "none", p,
                          RenderOutcome(p, inventory), "none")
    /\ UNCHANGED <<map, mapItems, pc, itemCount, placedItems, attempts,
                   inventory, equipment>>

----------------------------------------------------------------------------

\* the host's first call distributes items over its level; the later
\* distributeItems calls explored are the ones without a usable map
Next ==
    \/ call.op = "none" /\ DistributeItemsCall("array")
    \/ \E arg \in MapArgs \ {"array"} : DistributeItemsCall(arg)
    \/ DistributeAttempt
    \/ DistributeReturn
    \/ \E arg \in MapArgs : UpdateMapWithItems(arg)
    \/ \E p \in PlayerArgs, arg \in MapArgs : PickupItem(p, arg)

Spec == Init /\ [][Next]_vars

\* one distributeItems call on a level with a wall, run to completion: the
\* call is synchronous, so its loop iterations and its return are taken
\* whenever they are possible
InitTerm == Init /\ \E i \in 1 .. Len(map) : map[i] = WALL

NextTerm ==
    \/ call.op = "none" /\ DistributeItemsCall("array")
    \/ DistributeAttempt
    \/ DistributeReturn

SpecTerm ==
    /\ InitTerm
    /\ [][NextTerm]_vars
    /\ WF_vars(DistributeAttempt)
    /\ WF_vars(DistributeReturn)

\* equipping alone, on a level without items
InitEquip == Init /\ FloorCells(map) = {}

NextEquip == \E item \in EquipItems : AutoEquipItem(item)

SpecEquip == InitEquip /\ [][NextEquip]_vars

\* equipping by a player that already carries items
Inventories ==
    { << >>, << WEAPONS[1] >>, << RINGS[1], ARMOR[1] >> }

InitCarry ==
    /\ map \in LevelGrids
    /\ FloorCells(map) = {}
    /\ mapItems = << >>
    /\ pc = "idle"
    /\ itemCount = 0
    /\ placedItems = 0
    /\ attempts = 0
    /\ inventory \in Inventories
    /\ equipment = EmptyEquipment
    /\ call = NoCall

SpecCarry == InitCarry /\ [][NextEquip]_vars

\* rendering alone, for a player that carries up to MaxInventory of the
\* items a pickup can give
CarriedItems ==
    UNION { { getItemsByType(t)[k + 1] : k \in PickIndices(getItemsByType(t)) } :
              t \in {"weapon", "armor", "ring", "talisman"} }

InitRender ==
    /\ map \in LevelGrids
    /\ FloorCells(map) = {}
    /\ mapItems = << >>
    /\ pc = "idle"
    /\ itemCount = 0
    /\ placedItems = 0
    /\ attempts = 0
    /\ inventory \in UNION { [1 .. n -> CarriedItems] : n \in 0 .. MaxInventory }
    /\ equipment = EmptyEquipment
    /\ call = NoCall

NextRender == \E p \in RenderPlayers : RenderInventory(p)

SpecRender == InitRender /\ [][NextRender]_vars

\* the symbol distributeItems registers with an item of a type
SymbolOf(type) ==
    IF type = "weapon" THEN WEAPON_SYMBOL
    ELSE IF type = "armor" THEN ARMOR_SYMBOL
    ELSE TRINKET_SYMBOL

\* the registries an earlier distributeItems call and later pickups can
\* leave for a grid: up to MaxPlaced entries on its floor cells
RegistryEntries(g) ==
    { e \in { [x |-> x, y |-> y, item |-> item,
               symbol |-> SymbolOf(item.type)] :
                 x \in 0 .. MAP_WIDTH - 1, y \in 0 .. MAP_HEIGHT - 1,
                 item \in CarriedItems } :
        TileAt(g, CellIndex(e.x, e.y)) = FLOOR }

StaleRegistries(g) ==
    UNION { [1 .. n -> RegistryEntries(g)] : n \in 0 .. MaxPlaced }

\* distributeItems called again and again, the first time with the registry
\* of an earlier level still in place
InitReload ==
    /\ map \in LevelGrids
    /\ mapItems \in StaleRegistries(map)
    /\ pc = "idle"
    /\ itemCount = 0
    /\ placedItems = 0
    /\ attempts = 0
    /\ inventory = << >>
    /\ equipment = EmptyEquipment
    /\ call = NoCall

NextReload ==
    \/ \E arg \in MapArgs : DistributeItemsCall(arg)
    \/ DistributeAttempt
    \/ DistributeReturn

SpecReload == InitReload /\ [][NextReload]_vars

\* a level, possibly still showing the items of an earlier distribution, is
\* reset by force and the player then picks items up
InBoundsPlayers ==
    { p \in PlayerArgs :
        /\ p.kind = "object" /\ p.hasX /\ p.hasY
        /\ p.x \in 0 .. MAP_WIDTH - 1
        /\ p.y \in 0 .. MAP_HEIGHT - 1 }

InitSync ==
    /\ \E g \in LevelGrids :
          /\ mapItems \in StaleRegistries(g)
          /\ map = ProjectItems(g, mapItems, 1)
    /\ pc = "idle"
    /\ itemCount = 0
    /\ placedItems = 0
    /\ attempts = 0
    /\ inventory = << >>
    /\ equipment = EmptyEquipment
    /\ call = NoCall

NextSync ==
    \/ call.op = "none" /\ ResetAndDistributeItemsCall("array", TRUE)
    \/ DistributeAttempt
    \/ ResetReturn
    \/ call.op # "none" /\ \E p \in InBoundsPlayers : PickupItem(p, "array")

SpecSync == InitSync /\ [][NextSync]_vars

\* catalog lookups alone
NextCatalog == \E type \in TypeArgs : GetItemsByTypeCall(type)

SpecCatalog == InitEquip /\ [][NextCatalog]_vars

----------------------------------------------------------------------------
(* Properties of distributeItems *)

\* distributeItems(map) has just returned the registry
Returned == call.op = "distributeItems" /\ call.ret = "mapItems"

\* distributeItems is running or has just returned: the grid is the one the
\* entries of the registry were chosen on
Distributing == call.op = "distributeItems" /\ call.mapArg = "array"

\* C1: after distributeItems(map) returns, no two entries of the registry
\* have the same (x, y) coordinate.
C1_NoSharedCoordinate ==
    Returned =>
        \A i \in DOMAIN mapItems, j \in DOMAIN mapItems :
            (mapItems[i].x = mapItems[j].x /\ mapItems[i].y = mapItems[j].y)
                => i = j

\* C2: every entry distributeItems registers lies inside the grid on a cell
\* that holds the floor code; a cell that is not floor is never chosen.
C2_OnlyFloorChosen ==
    Distributing =>
        \A i \in DOMAIN mapItems :
            /\ mapItems[i].x \in 0 .. MAP_WIDTH - 1
            /\ mapItems[i].y \in 0 .. MAP_HEIGHT - 1
            /\ map[CellIndex(mapItems[i].x, mapItems[i].y) + 1] = FLOOR

\* an entry was registered on a grid that also has a wall
C2_Witness ==
    /\ Distributing
    /\ Len(mapItems) > 0
    /\ \E i \in 1 .. Len(map) : map[i] = WALL

Clamp(v, lo, hi) == IF v < lo THEN lo ELSE IF v > hi THEN hi ELSE v

\* C3: the target item count equals
\* clamp(10 + floor(navigable/totalCells * 30) + d, 10, 40) for an integer d
\* in -5..4, so it is never below 10 and never above 40.
C3_TargetClamped ==
    pc = "loop" =>
        /\ \E d \in -5 .. 4 :
             itemCount =
                 Clamp(10 + ((CountFloor(map, Len(map)) * 30) \div Cells) + d,
                       10, 40)
        /\ itemCount >= 10
        /\ itemCount <= 40

----------------------------------------------------------------------------
(* Properties of pickupItem *)

\* the step is a pickupItem(player, map) call with a usable map and a player
\* that has numeric x and y
ValidPickupStep ==
    /\ call'.op = "pickupItem"
    /\ call'.mapArg = "array"
    /\ call'.player.kind = "object"
    /\ call'.player.hasX
    /\ call'.player.hasY

\* the registry has an entry at (x, y)
HasEntryAt(registry, x, y) ==
    \E i \in DOMAIN registry : registry[i].x = x /\ registry[i].y = y

\* the cell the player of the step stands on, before and after the step
PlayerCell == map[CellIndex(call'.player.x, call'.player.y) + 1]
PlayerCellAfter == map'[CellIndex(call'.player.x, call'.player.y) + 1]
PlayerOnGrid ==
    CellIndex(call'.player.x, call'.player.y) \in 0 .. Len(map) - 1

\* C6: round trip: for every entry e placed by distributeItems, after
\* updateMapWithItems(map) a pickupItem with the player at e's coordinate
\* returns true, adds exactly e's item to the inventory and restores the
\* tile to the floor code.
C6_RoundTrip ==
    [][(/\ call.op = "updateMapWithItems"
        /\ call.mapArg = "array"
        /\ call.after = "distributeItems"
        /\ ValidPickupStep)
       => \A i \in DOMAIN mapItems :
            (mapItems[i].x = call'.player.x /\ mapItems[i].y = call'.player.y)
            => /\ call'.ret = "true"
               /\ inventory' = Append(inventory, mapItems[i].item)
               /\ PlayerCellAfter = FLOOR]_vars

\* C7: fallback: with no registry entry at the player's coordinate and an
\* item symbol in the grid cell there, pickupItem returns true, adds a catalog
\* item of the symbol's type to the inventory, resets the cell to the floor
\* code and leaves the registry unchanged.
C7_FallbackSynthesis ==
    [][(/\ ValidPickupStep
        /\ ~HasEntryAt(mapItems, call'.player.x, call'.player.y)
        /\ PlayerOnGrid
        /\ PlayerCell \in ItemSymbols)
       => /\ call'.ret = "true"
          /\ Len(inventory') = Len(inventory) + 1
          /\ SubSeq(inventory', 1, Len(inventory)) = inventory
          /\ LET item == inventory'[Len(inventory')]
                 catalog == IF item.type = "weapon" THEN WEAPONS
                            ELSE IF item.type = "armor" THEN ARMOR
                            ELSE IF item.type = "ring" THEN RINGS
                            ELSE TALISMANS
             IN  /\ PlayerCell = WEAPON_SYMBOL => item.type = "weapon"
                 /\ PlayerCell = ARMOR_SYMBOL => item.type = "armor"
                 /\ PlayerCell = TRINKET_SYMBOL
                        => item.type \in {"ring", "talisman"}
                 /\ \E k \in DOMAIN catalog : catalog[k] = item
          /\ PlayerCellAfter = FLOOR
          /\ mapItems' = mapItems]_vars

\* a pickup synthesized an armor from the symbol on the grid
C7_Witness ==
    /\ call.op = "pickupItem"
    /\ call.path = "fallback"
    /\ call.ret = "true"
    /\ Len(inventory) > 0
    /\ inventory[Len(inventory)].type = "armor"

\* C8: with a player that is absent, not an object or without a numeric x or
\* y, or with a map that is absent or empty, pickupItem returns false, raises
\* no fault and mutates neither the grid, the registry nor the player.
C8_InvalidInputReturnsFalse ==
    [][(/\ call'.op = "pickupItem"
        /\ \/ call'.player.kind # "object"
           \/ ~call'.player.hasX
           \/ ~call'.player.hasY
           \/ call'.mapArg # "array")
       => /\ call'.ret = "false"
          /\ UNCHANGED <<map, mapItems, inventory>>]_vars

\* C9: lookup miss: with no registry entry at the player's coordinate and no
\* item symbol in the grid cell there, pickupItem returns false and leaves
\* the grid, the registry and the inventory unchanged.
C9_LookupMiss ==
    [][(/\ ValidPickupStep
        /\ ~HasEntryAt(mapItems, call'.player.x, call'.player.y)
        /\ (PlayerOnGrid => PlayerCell \notin ItemSymbols))
       => /\ call'.ret = "false"
          /\ UNCHANGED <<map, mapItems, inventory>>]_vars

\* a pickup missed while the registry held an entry in the player's column
C9_Witness ==
    /\ call.op = "pickupItem"
    /\ call.mapArg = "array"
    /\ call.player.kind = "object" /\ call.player.hasX /\ call.player.hasY
    /\ call.ret = "false"
    /\ \E i \in DOMAIN mapItems : mapItems[i].x = call.player.x

----------------------------------------------------------------------------
(* Properties of autoEquipItem *)

\* no eligible slot is empty for the item
NoEligibleSlot(eq, item) ==
    \/ item.type = "weapon" /\ Len(eq.rightHand) > 0 /\ Len(eq.leftHand) > 0
    \/ item.type = "armor"
         /\ (item.slot \in ArmorSlots => eq[item.slot] # NULL)
    \/ item.type = "ring" /\ \A i \in DOMAIN eq.rings : eq.rings[i] # NULL
    \/ item.type = "talisman"
         /\ \A i \in DOMAIN eq.talismans : eq.talismans[i] # NULL

\* every occupied slot of eq holds the same item in after
OccupiedKept(eq, after) ==
    /\ \A h \in {"rightHand", "leftHand"} :
          /\ Len(after[h]) >= Len(eq[h])
          /\ \A i \in DOMAIN eq[h] : after[h][i] = eq[h][i]
    /\ \A sl \in ArmorSlots : eq[sl] # NULL => after[sl] = eq[sl]
    /\ \A a \in {"rings", "talismans"} :
          /\ DOMAIN after[a] = DOMAIN eq[a]
          /\ \A i \in DOMAIN eq[a] : eq[a][i] # NULL => after[a][i] = eq[a][i]

\* C10: autoEquipItem never overwrites an occupied slot: every slot occupied
\* before the call holds the same item after it, and when no eligible slot
\* is empty the call returns false and leaves the equipment unchanged.
C10_NeverOverwrites ==
    [][\A item \in EquipItems :
         AutoEquipItem(item)
         => /\ OccupiedKept(equipment, equipment')
            /\ NoEligibleSlot(equipment, item)
                  => (call'.ret = "false" /\ equipment' = equipment)]_vars

\* a call was refused with both hands, the head and the rings full
C10_Witness ==
    /\ call.op = "autoEquipItem"
    /\ call.ret = "false"
    /\ Len(equipment.rightHand) > 0
    /\ Len(equipment.leftHand) > 0
    /\ equipment.head # NULL
    /\ \A i \in DOMAIN equipment.rings : equipment.rings[i] # NULL

\* the equipment after item was put into the one slot the fixed order
\* chooses, or the equipment itself when that order has no slot for it
OrderedSlotFilled(eq, item) ==
    IF item.type = "weapon"
    THEN IF Len(eq.rightHand) = 0
         THEN [eq EXCEPT !.rightHand = << item >>]
         ELSE IF Len(eq.leftHand) = 0
         THEN [eq EXCEPT !.leftHand = << item >>]
         ELSE eq
    ELSE IF item.type \in {"ring", "talisman"}
    THEN LET a == IF item.type = "ring" THEN "rings" ELSE "talismans"
             empty == {i \in DOMAIN eq[a] : eq[a][i] = NULL}
         IN  IF empty = {} THEN eq
             ELSE LET lowest == CHOOSE i \in empty : \A j \in empty : i <= j
                  IN  [eq EXCEPT ![a][lowest] = item]
    ELSE IF item.type = "armor" /\ item.slot \in ArmorSlots
    THEN [eq EXCEPT ![item.slot] = item]
    ELSE eq

\* C11: on success autoEquipItem changes exactly one slot, chosen by a fixed
\* order: a weapon goes to rightHand if it is empty, otherwise to leftHand if
\* that is empty; a ring (talisman) goes to the lowest-index empty position
\* of the rings (talismans) array; an armor goes to the slot it declares;
\* every other slot and the inventory are unchanged.
C11_OneSlotInFixedOrder ==
    [][\A item \in EquipItems :
         (AutoEquipItem(item) /\ call'.ret = "true")
         => /\ equipment' = OrderedSlotFilled(equipment, item)
            /\ equipment' # equipment
            /\ inventory' = inventory]_vars

\* a carrying player has a weapon in the left hand and the last ring
\* position filled by a successful call
C11_Witness ==
    /\ call.op = "autoEquipItem"
    /\ call.ret = "true"
    /\ Len(inventory) > 0
    /\ Len(equipment.leftHand) > 0
    /\ equipment.rings[RingSlots] # NULL

----------------------------------------------------------------------------
(* Properties of getItemsByType *)

\* the value is a string that spells word in some mix of cases
IsSpellingOf(v, word) == v.kind = "string" /\ v.chars \in Spellings(word)

\* C12: getItemsByType returns the catalog sequence of the type for every
\* upper/lower-case spelling of 'weapon', 'armor', 'ring' and 'talisman', and
\* returns an empty sequence, without raising a fault, for any other input,
\* including absent values and values that are not strings.
C12_CaseInsensitiveElseEmpty ==
    call.op = "getItemsByType" =>
        /\ call.ret # "TypeError"
        /\ IF IsSpellingOf(call.type, WEAPON_TYPE) THEN call.items = WEAPONS
           ELSE IF IsSpellingOf(call.type, ARMOR_TYPE) THEN call.items = ARMOR
           ELSE IF IsSpellingOf(call.type, RING_TYPE) THEN call.items = RINGS
           ELSE IF IsSpellingOf(call.type, TALISMAN_TYPE)
           THEN call.items = TALISMANS
           ELSE call.items = << >>

----------------------------------------------------------------------------
(* Properties of renderInventory *)

\* C13: renderInventory fails gracefully: for a player that is absent or
\* whose inventory is absent it returns the fixed string
\* '| INVENTORY: Error' (it does not raise a fault), and for a player whose
\* inventory has zero entries it returns the fixed string
\* '| INVENTORY: Empty'.
C13_FailsGracefully ==
    call.op = "renderInventory" =>
        /\ (call.player.kind \in {"null", "undefined"}
              \/ call.player.inv = "undefined")
             => call.ret = "| INVENTORY: Error"
        /\ (call.player.inv = "array" /\ Len(inventory) = 0)
             => call.ret = "| INVENTORY: Empty"

----------------------------------------------------------------------------
(* Properties of the registry across calls *)

FirstEntryAtCell(registry, k, i) ==
    /\ CellIndex(registry[k].x, registry[k].y) + 1 = i
    /\ \A j \in 1 .. k - 1 : CellIndex(registry[j].x, registry[j].y) + 1 # i

C16_RegistryGridInSync ==
    (pc = "idle" /\ call.op \in {"resetAndDistributeItems", "pickupItem"})
    => /\ \A x \in 0 .. MAP_WIDTH - 1, y \in 0 .. MAP_HEIGHT - 1 :
            (map[CellIndex(x, y) + 1] \in ItemSymbols)
                <=> HasEntryAt(mapItems, x, y)
       /\ (call.op = "pickupItem" /\ call.ret = "true")
            => ~HasEntryAt(mapItems, call.player.x, call.player.y)

====
